---- MODULE Spec2Model ----
(***************************************************************************)
(* A model of filters.py: the AttributeFilter predicate classes, the       *)
(* create_filters factory and the limit generator.                         *)
(***************************************************************************)
EXTENDS Integers, Sequences, FiniteSets, TLC

VARIABLES
    source,     \* limit: per traversal, the sequence behind `iterator`
    n,          \* limit: per traversal, the argument n (None or an int)
    enum,       \* limit: per traversal, enumerate's counter = elements pulled so far
    index,      \* limit: per traversal, the loop variable `index`
    value,      \* limit: per traversal, the loop variable `value`
    out,        \* limit: per traversal, the elements yielded to the consumer so far
    pc,         \* limit: per traversal, where the generator stands
    criteria,   \* create_filters: the ten keyword arguments of the last call
    filters,    \* the tuple of predicates at hand (factory result or direct construction)
    origin,     \* how `filters` came about: "none", "factory", "direct", "base"
    approach,   \* the CloseApproach the predicates are called on (None when there is none)
    called,     \* the predicate of the last call (None before any call)
    result,     \* outcome of the last predicate call
    records     \* pipeline: the candidate records handed to the query

vars == <<source, n, enum, index, value, out, pc,
          criteria, filters, origin, approach, called, result, records>>

limitVars == <<source, n, enum, index, value, out, pc>>
filterVars == <<criteria, filters, origin, approach, called, result>>

----------------------------------------------------------------------------
(* Bounds of the model *)

MaxLen == 3          \* longest source sequence of a single traversal
MaxConcLen == 2      \* longest source sequence of each of two interleaved traversals
MaxElem == 2         \* source elements are 1..MaxElem
MaxN == 2            \* n ranges over -MaxNeg..MaxN and None
MaxNeg == 1
MaxVal == 1          \* numeric attributes and bounds are 0..MaxVal
MaxDate == 2         \* calendar dates are 1..MaxDate
MaxSupplied == 1     \* criteria supplied together when the result is then evaluated
MaxRecords == 3      \* longest record sequence of the pipeline

----------------------------------------------------------------------------
(* Python values *)

None == [t |-> "None"]
PyInt(k) == [t |-> "int", v |-> k]
PyFloat(x) == [t |-> "float", v |-> x]
PyDate(d) == [t |-> "date", v |-> d]
PyBool(b) == [t |-> "bool", v |-> b]

\* bool(x) as an `if x:` statement computes it: None is false, a number is
\* true unless zero, a datetime.date is always true, a bool is itself.
Truthy(x) ==
    CASE x.t = "None" -> FALSE
      [] x.t = "int" -> x.v # 0
      [] x.t = "float" -> x.v # 0
      [] x.t = "date" -> TRUE
      [] x.t = "bool" -> x.v

Min(a, b) == IF a <= b THEN a ELSE b

SeqsUpTo(S, k) == UNION {[1..m -> S] : m \in 0..k}

----------------------------------------------------------------------------
(* limit(iterator, n) *)

Elems == 1..MaxElem
Limits == {None} \cup {PyInt(k) : k \in (0 - MaxNeg)..MaxN}

\* A counter that every traversal reads and advances.
NextIndexShared(t) == enum[1] + (IF 2 \in DOMAIN enum THEN enum[2] ELSE 0)

\* The counter of enumerate(iterator): private to the traversal.
NextIndex(t) == enum[t]

\* index <= n in place of index < n.
LoopBodyOffByOne(i, lim) ==
    IF lim = PyInt(0) \/ lim = None THEN "yield"
    ELSE IF lim.t # "int" THEN "TypeError"
    ELSE IF i <= lim.v /\ lim.v > 0 THEN "yield"
    ELSE "skip"

\* Zero taken literally: only None is unlimited.
LoopBodyZeroLiteral(i, lim) ==
    IF lim = None THEN "yield"
    ELSE IF lim.t # "int" THEN "TypeError"
    ELSE IF i < lim.v /\ lim.v > 0 THEN "yield"
    ELSE "skip"

\* Anything that is not a positive int is unlimited.
LoopBodyNegativeUnlimited(i, lim) ==
    IF lim = None \/ lim.v <= 0 THEN "yield"
    ELSE IF i < lim.v THEN "yield"
    ELSE "skip"

\* The body of the loop for one (index, value) pair: what the if/elif does.
LoopBody(i, lim) ==
    IF lim = PyInt(0) \/ lim = None THEN "yield"
    ELSE IF lim.t # "int" THEN "TypeError"
    ELSE IF i < lim.v /\ lim.v > 0 THEN "yield"
    ELSE "skip"

\* The for statement asks enumerate for the next pair; StopIteration ends the generator.
Pull(t) ==
    /\ pc[t] = "for"
    /\ IF enum[t] < Len(source[t])
         THEN /\ index' = [index EXCEPT ![t] = NextIndex(t)]
              /\ value' = [value EXCEPT ![t] = source[t][enum[t] + 1]]
              /\ enum' = [enum EXCEPT ![t] = enum[t] + 1]
              /\ pc' = [pc EXCEPT ![t] = "body"]
         ELSE /\ pc' = [pc EXCEPT ![t] = "done"]
              /\ UNCHANGED <<index, value, enum>>
    /\ UNCHANGED <<source, n, out, records>>
    /\ UNCHANGED filterVars

\* The loop body runs: it yields the value (the generator suspends) or falls through.
Body(t) ==
    /\ pc[t] = "body"
    /\ LET b == LoopBody(index[t], n[t]) IN
         /\ out' = [out EXCEPT ![t] = IF b = "yield" THEN Append(out[t], value[t]) ELSE out[t]]
         /\ pc' = [pc EXCEPT ![t] = CASE b = "yield" -> "yielded"
                                      [] b = "skip" -> "for"
                                      [] OTHER -> b]
    /\ UNCHANGED <<source, n, enum, index, value, records>>
    /\ UNCHANGED filterVars

\* The consumer asks for the next element: the generator resumes after the yield.
Resume(t) ==
    /\ pc[t] = "yielded"
    /\ pc' = [pc EXCEPT ![t] = "for"]
    /\ UNCHANGED <<source, n, enum, index, value, out, records>>
    /\ UNCHANGED filterVars

NoFilters ==
    /\ criteria = None
    /\ filters = <<>>
    /\ origin = "none"
    /\ called = None
    /\ result = None

\* limit(s, k) called for each traversal of T: the generator object exists, nothing has run.
InitLimit(T, len) ==
    /\ source \in [T -> SeqsUpTo(Elems, len)]
    /\ n \in [T -> Limits]
    /\ enum = [t \in T |-> 0]
    /\ index = [t \in T |-> 0]
    /\ value = [t \in T |-> 0]
    /\ out = [t \in T |-> <<>>]
    /\ pc = [t \in T |-> "for"]
    /\ records = <<>>
    /\ approach = None
    /\ NoFilters

NextLimit ==
    \/ \E t \in DOMAIN pc : Pull(t)
    \/ \E t \in DOMAIN pc : Body(t)
    \/ \E t \in DOMAIN pc : Resume(t)

Spec == InitLimit({1}, MaxLen) /\ [][NextLimit]_vars

SpecConcurrent == InitLimit({1, 2}, MaxConcLen) /\ [][NextLimit]_vars

----------------------------------------------------------------------------
(* CloseApproach records (models.py), as far as the filters read them *)

Dates == 1..MaxDate
Nums == 0..MaxVal
TimesOfDay == {"00:00", "12:00"}

Approaches ==
    [time : [date : Dates, tod : TimesOfDay],
     distance : {PyFloat(x) : x \in Nums},
     velocity : {PyFloat(x) : x \in Nums},
     neo : [diameter : {PyFloat(x) : x \in Nums},
            hazardous : {PyBool(b) : b \in BOOLEAN}]]

\* datetime.date(): the calendar date of a timestamp, the time of day dropped.
date_of(time) == PyDate(time.date)

----------------------------------------------------------------------------
(* AttributeFilter and its ten subclasses *)

Raise(e) == [t |-> "raise", v |-> e]

Ops == {"eq", "le", "ge"}

\* operator.eq / operator.le / operator.ge applied to (a, b).
ApplyOp(op, a, b) ==
    CASE op = "eq" -> a = b
      [] op = "le" -> a.v <= b.v
      [] op = "ge" -> a.v >= b.v

AttributeFilter(cls, op, val) == [cls |-> cls, op |-> op, value |-> val]

DateFilter(date) == AttributeFilter("DateFilter", "eq", date)
DiameterMaxFilter(diameter) == AttributeFilter("DiameterMaxFilter", "le", diameter)
DiameterMinFilter(diameter) == AttributeFilter("DiameterMinFilter", "ge", diameter)
DistanceMaxFilter(distance) == AttributeFilter("DistanceMaxFilter", "le", distance)
DistanceMinFilter(distance) == AttributeFilter("DistanceMinFilter", "ge", distance)
EndDateFilter(date) == AttributeFilter("EndDateFilter", "le", date)
HazardousFilter(hazardous) == AttributeFilter("HazardousFilter", "eq", hazardous)
StartDateFilter(date) == AttributeFilter("StartDateFilter", "ge", date)
VelocityMaxFilter(velocity) == AttributeFilter("VelocityMaxFilter", "le", velocity)
VelocityMinFilter(velocity) == AttributeFilter("VelocityMinFilter", "ge", velocity)

\* A base class whose accessor answers instead of raising.
AttributeFilter_get_Answers(a) == a.distance

AttributeFilter_get(a) == Raise("UnsupportedCriterionError")
DateFilter_get(a) == date_of(a.time)
DiameterMaxFilter_get(a) == a.neo.diameter
DiameterMinFilter_get(a) == a.neo.diameter
DistanceMaxFilter_get(a) == a.distance
DistanceMinFilter_get(a) == a.distance
EndDateFilter_get(a) == date_of(a.time)
HazardousFilter_get(a) == a.neo.hazardous
StartDateFilter_get(a) == date_of(a.time)

\* An accessor copied from the distance filters.
VelocityMaxFilter_get_Distance(a) == a.distance

VelocityMaxFilter_get(a) == a.velocity
VelocityMinFilter_get(a) == a.velocity

ConcreteClasses ==
    {"DateFilter", "DiameterMaxFilter", "DiameterMinFilter", "DistanceMaxFilter",
     "DistanceMinFilter", "EndDateFilter", "HazardousFilter", "StartDateFilter",
     "VelocityMaxFilter", "VelocityMinFilter"}

\* self.get(approach): the classmethod of the instance's class.
get(cls, a) ==
    CASE cls = "DateFilter" -> DateFilter_get(a)
      [] cls = "DiameterMaxFilter" -> DiameterMaxFilter_get(a)
      [] cls = "DiameterMinFilter" -> DiameterMinFilter_get(a)
      [] cls = "DistanceMaxFilter" -> DistanceMaxFilter_get(a)
      [] cls = "DistanceMinFilter" -> DistanceMinFilter_get(a)
      [] cls = "EndDateFilter" -> EndDateFilter_get(a)
      [] cls = "HazardousFilter" -> HazardousFilter_get(a)
      [] cls = "StartDateFilter" -> StartDateFilter_get(a)
      [] cls = "VelocityMaxFilter" -> VelocityMaxFilter_get(a)
      [] cls = "VelocityMinFilter" -> VelocityMinFilter_get(a)
      [] OTHER -> AttributeFilter_get(a)

\* AttributeFilter.__call__: op(get(approach), value); an exception of get propagates.
call(f, a) ==
    LET x == get(f.cls, a) IN
      IF x.t = "raise" THEN x ELSE PyBool(ApplyOp(f.op, x, f.value))

\* The constructor of a concrete class, which takes the reference value only.
New(cls, val) ==
    CASE cls = "DateFilter" -> DateFilter(val)
      [] cls = "DiameterMaxFilter" -> DiameterMaxFilter(val)
      [] cls = "DiameterMinFilter" -> DiameterMinFilter(val)
      [] cls = "DistanceMaxFilter" -> DistanceMaxFilter(val)
      [] cls = "DistanceMinFilter" -> DistanceMinFilter(val)
      [] cls = "EndDateFilter" -> EndDateFilter(val)
      [] cls = "HazardousFilter" -> HazardousFilter(val)
      [] cls = "StartDateFilter" -> StartDateFilter(val)
      [] cls = "VelocityMaxFilter" -> VelocityMaxFilter(val)
      [] cls = "VelocityMinFilter" -> VelocityMinFilter(val)

DateClasses == {"DateFilter", "StartDateFilter", "EndDateFilter"}

\* Reference values of the type the class compares.
ValuesOf(cls) ==
    IF cls \in DateClasses THEN {PyDate(d) : d \in Dates}
    ELSE IF cls = "HazardousFilter" THEN {PyBool(b) : b \in BOOLEAN}
    ELSE {PyFloat(x) : x \in Nums}

----------------------------------------------------------------------------
(* create_filters *)

Fields ==
    <<"date", "start_date", "end_date", "distance_min", "distance_max",
      "velocity_min", "velocity_max", "diameter_min", "diameter_max", "hazardous">>

ClassOf ==
    [date |-> "DateFilter", start_date |-> "StartDateFilter", end_date |-> "EndDateFilter",
     distance_min |-> "DistanceMinFilter", distance_max |-> "DistanceMaxFilter",
     velocity_min |-> "VelocityMinFilter", velocity_max |-> "VelocityMaxFilter",
     diameter_min |-> "DiameterMinFilter", diameter_max |-> "DiameterMaxFilter",
     hazardous |-> "HazardousFilter"]

FieldSet == {Fields[i] : i \in 1..Len(Fields)}

\* The argument sets of create_filters in which exactly the criteria of S may be supplied.
BundlesOn(S) ==
    LET Arg(f) == IF f \in S THEN {None} \cup ValuesOf(ClassOf[f]) ELSE {None} IN
      [date : Arg("date"), start_date : Arg("start_date"), end_date : Arg("end_date"),
       distance_min : Arg("distance_min"), distance_max : Arg("distance_max"),
       velocity_min : Arg("velocity_min"), velocity_max : Arg("velocity_max"),
       diameter_min : Arg("diameter_min"), diameter_max : Arg("diameter_max"),
       hazardous : Arg("hazardous")]

AllBundles == BundlesOn(FieldSet)
SmallBundles == UNION {BundlesOn(S) : S \in {T \in SUBSET FieldSet : Cardinality(T) <= MaxSupplied}}
DistanceMaxBundles == {c \in BundlesOn({"distance_max"}) : c.distance_max # None}

\* The hazard criterion tested like the others, by truthiness.
create_filters_TruthyHazardous(c) ==
    (IF Truthy(c.date) THEN <<DateFilter(c.date)>> ELSE <<>>)
    \o (IF Truthy(c.start_date) THEN <<StartDateFilter(c.start_date)>> ELSE <<>>)
    \o (IF Truthy(c.end_date) THEN <<EndDateFilter(c.end_date)>> ELSE <<>>)
    \o (IF Truthy(c.distance_min) THEN <<DistanceMinFilter(c.distance_min)>> ELSE <<>>)
    \o (IF Truthy(c.distance_max) THEN <<DistanceMaxFilter(c.distance_max)>> ELSE <<>>)
    \o (IF Truthy(c.velocity_min) THEN <<VelocityMinFilter(c.velocity_min)>> ELSE <<>>)
    \o (IF Truthy(c.velocity_max) THEN <<VelocityMaxFilter(c.velocity_max)>> ELSE <<>>)
    \o (IF Truthy(c.diameter_min) THEN <<DiameterMinFilter(c.diameter_min)>> ELSE <<>>)
    \o (IF Truthy(c.diameter_max) THEN <<DiameterMaxFilter(c.diameter_max)>> ELSE <<>>)
    \o (IF Truthy(c.hazardous) THEN <<HazardousFilter(c.hazardous)>> ELSE <<>>)

\* filters = []; one `if` per criterion appends its predicate; return tuple(filters).
create_filters(c) ==
    (IF Truthy(c.date) THEN <<DateFilter(c.date)>> ELSE <<>>)
    \o (IF Truthy(c.start_date) THEN <<StartDateFilter(c.start_date)>> ELSE <<>>)
    \o (IF Truthy(c.end_date) THEN <<EndDateFilter(c.end_date)>> ELSE <<>>)
    \o (IF Truthy(c.distance_min) THEN <<DistanceMinFilter(c.distance_min)>> ELSE <<>>)
    \o (IF Truthy(c.distance_max) THEN <<DistanceMaxFilter(c.distance_max)>> ELSE <<>>)
    \o (IF Truthy(c.velocity_min) THEN <<VelocityMinFilter(c.velocity_min)>> ELSE <<>>)
    \o (IF Truthy(c.velocity_max) THEN <<VelocityMaxFilter(c.velocity_max)>> ELSE <<>>)
    \o (IF Truthy(c.diameter_min) THEN <<DiameterMinFilter(c.diameter_min)>> ELSE <<>>)
    \o (IF Truthy(c.diameter_max) THEN <<DiameterMaxFilter(c.diameter_max)>> ELSE <<>>)
    \o (IF c.hazardous # None THEN <<HazardousFilter(c.hazardous)>> ELSE <<>>)

----------------------------------------------------------------------------
(* Building and calling predicates *)

\* create_filters(**c) is called with some c of B and its tuple kept; the
\* predicates of a query are built once.
CreateFilters(B) ==
    /\ origin = "none"
    /\ \E c \in B :
         /\ criteria' = c
         /\ filters' = create_filters(c)
    /\ origin' = "factory"
    /\ UNCHANGED <<approach, called, result, records>>
    /\ UNCHANGED limitVars

\* A concrete predicate is constructed directly from a reference value.
Construct ==
    /\ origin = "none"
    /\ \E cls \in ConcreteClasses : \E val \in ValuesOf(cls) :
         filters' = <<New(cls, val)>>
    /\ origin' = "direct"
    /\ UNCHANGED <<criteria, approach, called, result, records>>
    /\ UNCHANGED limitVars

\* The base class itself is instantiated with an operator and a reference value.
ConstructBase ==
    /\ origin = "none"
    /\ \E op \in Ops : \E val \in ValuesOf("DistanceMinFilter") :
         filters' = <<AttributeFilter("AttributeFilter", op, val)>>
    /\ origin' = "base"
    /\ UNCHANGED <<criteria, approach, called, result, records>>
    /\ UNCHANGED limitVars

\* filters[i](approach) for some predicate at hand.
CallFilter ==
    /\ \E i \in 1..Len(filters) :
         /\ called' = filters[i]
         /\ result' = call(filters[i], approach)
    /\ UNCHANGED <<criteria, filters, origin, approach, records>>
    /\ UNCHANGED limitVars

NoLimit ==
    /\ source = <<>> /\ n = <<>> /\ enum = <<>> /\ index = <<>>
    /\ value = <<>> /\ out = <<>> /\ pc = <<>>
    /\ records = <<>>

\* No predicate is built yet and none is called.
InitFactory == approach = None /\ NoFilters /\ NoLimit

NextFactory == CreateFilters(AllBundles)

SpecFactory == InitFactory /\ [][NextFactory]_vars

\* No predicate is built yet; some record is there to call them on.
InitQuery == approach \in Approaches /\ NoFilters /\ NoLimit

NextQuery ==
    \/ CreateFilters(SmallBundles)
    \/ Construct
    \/ ConstructBase
    \/ CallFilter

SpecQuery == InitQuery /\ [][NextQuery]_vars

----------------------------------------------------------------------------
(* The pipeline: create_filters, the query, limit *)

\* The query keeps the records on which every predicate of the collection is true.
query(fs, recs) ==
    LET Keep(a) == \A i \in 1..Len(fs) : call(fs[i], a) = PyBool(TRUE) IN
      SelectSeq(recs, Keep)

\* Candidate records that differ in distance and hazard flag.
PipelineApproaches ==
    {a \in Approaches : /\ a.time = [date |-> 1, tod |-> "00:00"]
                        /\ a.velocity = PyFloat(0)
                        /\ a.neo.diameter = PyFloat(0)}

\* limit(query(filters, records), 1): the generator is created over the matches.
StartLimit ==
    /\ origin = "factory"
    /\ pc[1] = "idle"
    /\ source' = [source EXCEPT ![1] = query(filters, records)]
    /\ pc' = [pc EXCEPT ![1] = "for"]
    /\ UNCHANGED <<n, enum, index, value, out, records>>
    /\ UNCHANGED filterVars

InitPipeline ==
    /\ records \in SeqsUpTo(PipelineApproaches, MaxRecords)
    /\ source = <<<<>>>>
    /\ n = <<PyInt(1)>>
    /\ enum = <<0>>
    /\ index = <<0>>
    /\ value = <<0>>
    /\ out = <<<<>>>>
    /\ pc = <<"idle">>
    /\ approach = None
    /\ NoFilters

NextPipeline ==
    \/ CreateFilters(DistanceMaxBundles)
    \/ StartLimit
    \/ Pull(1)
    \/ Body(1)
    \/ Resume(1)

SpecPipeline == InitPipeline /\ [][NextPipeline]_vars

----------------------------------------------------------------------------
(* Properties of limit *)

Positive(lim) == lim.t = "int" /\ lim.v > 0
Negative(lim) == lim.t = "int" /\ lim.v < 0
Prefix(s, k) == SubSeq(s, 1, Min(k, Len(s)))

\* C1: with n > 0 the generator never pulls more than n elements from the
\* source, however far the consumer drives it.
C1_PullsAtMostN ==
    \A t \in DOMAIN pc : Positive(n[t]) => enum[t] <= n[t].v

\* C2: with n > 0, limit driven to exhaustion has yielded exactly the first
\* min(n, len(s)) elements of s, in order and unmodified, and ended without error.
C2_YieldsPrefix ==
    \A t \in DOMAIN pc : Positive(n[t]) =>
        /\ pc[t] # "TypeError"
        /\ Len(out[t]) <= Min(n[t].v, Len(source[t]))
        /\ \A i \in 1..Len(out[t]) : out[t][i] = source[t][i]
        /\ pc[t] = "done" => Len(out[t]) = Min(n[t].v, Len(source[t]))

C2_Witness ==
    /\ pc[1] = "done" /\ Positive(n[1])
    /\ Len(source[1]) > n[1].v /\ Len(out[1]) = n[1].v
    /\ Len(out[1]) >= 2 /\ out[1][1] # out[1][2]

\* C3: with n = 0 or n = None, limit driven to exhaustion has yielded every
\* element of s, in order, exactly once.
C3_ZeroAndNoneUnlimited ==
    \A t \in DOMAIN pc : (n[t] = PyInt(0) \/ n[t] = None) =>
        /\ pc[t] # "TypeError"
        /\ out[t] = SubSeq(source[t], 1, Len(out[t]))
        /\ pc[t] = "done" => out[t] = source[t]

C3_Witness ==
    /\ pc[1] = "done" /\ n[1] = PyInt(0)
    /\ Len(source[1]) = MaxLen /\ out[1] = source[1]

\* C10: with n < 0, limit never yields an element, raises no error, and has
\* pulled every element of the source when it terminates.
C10_NegativeYieldsNothing ==
    \A t \in DOMAIN pc : Negative(n[t]) =>
        /\ out[t] = <<>>
        /\ pc[t] \notin {"yielded", "TypeError"}
        /\ pc[t] = "done" => enum[t] = Len(source[t])

C10_Witness ==
    /\ pc[1] = "done" /\ Negative(n[1])
    /\ Len(source[1]) = MaxLen /\ enum[1] = MaxLen

\* What limit(s, lim) produces when it runs alone.
Alone(s, lim) ==
    IF lim = None \/ lim.v = 0 THEN s
    ELSE IF lim.v > 0 THEN Prefix(s, lim.v)
    ELSE <<>>

\* C9: two interleaved traversals over independent sources each produce what
\* they would produce alone; each one's index is its own count of pulls.
C9_TraversalsIndependent ==
    \A t \in DOMAIN pc :
        /\ pc[t] = "body" => index[t] = enum[t] - 1
        /\ Len(out[t]) <= Len(Alone(source[t], n[t]))
        /\ out[t] = SubSeq(Alone(source[t], n[t]), 1, Len(out[t]))
        /\ pc[t] = "done" => out[t] = Alone(source[t], n[t])

C9_Witness ==
    /\ pc[1] = "done" /\ pc[2] = "yielded"
    /\ Positive(n[1]) /\ Positive(n[2]) /\ n[1] # n[2]
    /\ Len(source[1]) > n[1].v /\ out[1] # <<>>
    /\ enum[2] > 0 /\ source[1] # source[2]

----------------------------------------------------------------------------
(* Properties of the predicates and of create_filters *)

Supplied(c) == {i \in 1..Len(Fields) : c[Fields[i]] # None}

\* C4: create_filters returns exactly one predicate per criterion that is not
\* None, carrying the supplied value, and none for a criterion that is None;
\* a numeric bound of 0 counts as supplied.
C4_OnePredicatePerSuppliedCriterion ==
    origin = "factory" =>
        /\ Len(filters) = Cardinality(Supplied(criteria))
        /\ \A i \in Supplied(criteria) :
             \E k \in 1..Len(filters) :
                 /\ filters[k].cls = ClassOf[Fields[i]]
                 /\ filters[k].value = criteria[Fields[i]]

NoCriteria == [i \in FieldSet |-> None]

\* C5: create_filters(hazardous=False) returns exactly one predicate, false on
\* every hazardous record and true on every non-hazardous one; create_filters()
\* returns the empty collection, which accepts every record.
C5_NotHazardousIsACriterion ==
    /\ (origin = "factory" /\ criteria = [NoCriteria EXCEPT !.hazardous = PyBool(FALSE)]) =>
         /\ Len(filters) = 1
         /\ called # None => result = PyBool(~approach.neo.hazardous.v)
    /\ (origin = "factory" /\ criteria = NoCriteria) =>
         /\ filters = <<>>
         /\ \A a \in Approaches : query(filters, <<a>>) = <<a>>

C5_Witness ==
    /\ origin = "factory"
    /\ criteria = [NoCriteria EXCEPT !.hazardous = PyBool(FALSE)]
    /\ called # None
    /\ approach.neo.hazardous = PyBool(TRUE)
    /\ result = PyBool(FALSE)

\* C6: each concrete predicate built with v returns accessor(r) OP v on r, with
\* the pairing of its class and v as the right-hand operand.
C6_PredicateComputesItsComparison ==
    (called # None /\ called.cls \in ConcreteClasses) =>
        LET v == called.value.v
            r == approach
            expected ==
                CASE called.cls = "DistanceMinFilter" -> r.distance.v >= v
                  [] called.cls = "VelocityMinFilter" -> r.velocity.v >= v
                  [] called.cls = "DiameterMinFilter" -> r.neo.diameter.v >= v
                  [] called.cls = "StartDateFilter" -> r.time.date >= v
                  [] called.cls = "DistanceMaxFilter" -> r.distance.v <= v
                  [] called.cls = "VelocityMaxFilter" -> r.velocity.v <= v
                  [] called.cls = "DiameterMaxFilter" -> r.neo.diameter.v <= v
                  [] called.cls = "EndDateFilter" -> r.time.date <= v
                  [] called.cls = "DateFilter" -> r.time.date = v
                  [] called.cls = "HazardousFilter" -> r.neo.hazardous.v = v
        IN result = PyBool(expected)

C6_Witness ==
    /\ origin = "direct"
    /\ called # None
    /\ called.cls = "VelocityMaxFilter"
    /\ approach.velocity.v <= called.value.v
    /\ approach.distance.v > called.value.v
    /\ approach.time.tod = "12:00"
    /\ result = PyBool(TRUE)

\* C8: calling a base AttributeFilter fails with UnsupportedCriterionError for
\* every operator and value; calling a concrete predicate, or one returned by
\* create_filters, returns a boolean.
C8_OnlyTheBaseIsUnsupported ==
    called # None =>
        /\ called.cls = "AttributeFilter" => result = Raise("UnsupportedCriterionError")
        /\ called.cls \in ConcreteClasses => result.t = "bool"
        /\ origin = "factory" => result.t = "bool"

C8_Witness ==
    /\ origin = "base"
    /\ called # None
    /\ called.op = "le"
    /\ result = Raise("UnsupportedCriterionError")

\* C7: create_filters(distance_max=m), the query and limit(..., 1) yield the
\* first record in input order with distance <= m, and nothing when there is none.
C7_FirstQualifyingRecord ==
    (origin = "factory" /\ pc[1] = "done") =>
        LET m == criteria.distance_max.v
            Q == {i \in 1..Len(records) : records[i].distance.v <= m}
        IN out[1] = IF Q = {} THEN <<>>
                    ELSE <<records[CHOOSE i \in Q : \A j \in Q : i <= j]>>

====
